---- MODULE Spec2Model ----
(***************************************************************************)
(* Model of the NC dashboard: main() of app.py (sidebar widgets, global    *)
(* filters, hand-over of frames to the six views) and the two rendering    *)
(* procedures of src/src/kpi_cards.py, the module app.py imports           *)
(* (render_open_nc_status_tracker and render_current_week_detail_view).    *)
(*                                                                         *)
(* A DataFrame is a record [obj, rows]: obj names the Python object (two   *)
(* variables holding the same obj alias each other), rows is the sequence  *)
(* of records in index order.  A row keeps its pandas index label in idx.  *)
(*                                                                         *)
(* A behaviour of Spec is one execution of one procedure on an input drawn *)
(* by Init: main() on what load_nc_data() returns, or one of the rendering *)
(* procedures on the frame it is called with.  main() ends by recording    *)
(* the frame each view is called with.  SpecWeek runs the week detail view *)
(* twice, as two runs of the script do, over the clock readings of a whole *)
(* week.  SpecSession is a session of main(): runs of the script, one      *)
(* after the other, with the "Refresh Data" button and the data source.    *)
(***************************************************************************)
EXTENDS Integers, Sequences, FiniteSets, TLC

VARIABLES
    pc,               \* which procedure runs / has finished
    source,           \* data source: the rows the spreadsheet holds now
    cache,            \* data source: the record set kept from the last fetch
    button,           \* main: "Refresh Data" was pressed to start this run
    presses,          \* the number of times "Refresh Data" was pressed so far
    loaded_after,     \* the value of presses when the record set in sheet was fetched
    sheet,            \* the input: rows load_nc_data() returns, or the frame a view is called with
    load_raised,      \* main: load_nc_data() raises instead of returning
    df,               \* main: df after the sidebar block (st.session_state['raw_df'])
    date_range,       \* main: value of the "Date Range" widget (<<>> stands for None)
    ext_int_filter,   \* main: value of the "External/Internal" selectbox
    status_filter,    \* main: value of the "Status" selectbox
    priority_filter,  \* main: value of the "Priority" selectbox
    load_error,       \* main: the except branch ran (st.error shown)
    filtered_df,      \* main: filtered_df (st.session_state['filtered_df'])
    views,            \* main: the frame each of the six views was called with
    status_counts,    \* tracker: df['Status'].value_counts()
    open_ncs,         \* tracker: open_ncs
    summary_df,       \* tracker: summary_df (Status, Priority, Count columns)
    tracker,          \* tracker: how it ended, total_ncs and the percentages it computed
    today,            \* week view: datetime.now()
    week,             \* week view: its locals once it has run
    week_again,       \* week view: its locals in the next run of the script
    card              \* KPI card: its arguments and what it computes and shows

refreshVars == <<source, cache, button, presses, loaded_after>>

vars == <<pc, refreshVars, sheet, load_raised, df, date_range, ext_int_filter, status_filter,
          priority_filter, load_error, filtered_df, views, status_counts,
          open_ncs, summary_df, tracker, today, week, week_again, card>>

-----------------------------------------------------------------------------
(* Bounds of the model *)

MaxRows == 2            \* rows of the frame main() and the week view run on
MaxTrackerRows == 3     \* rows of the frame the status tracker runs on
MaxCount == 3           \* largest count and total a KPI card is called with
MaxPresses == 2         \* presses of "Refresh Data" in one session
SecondsPerDay == 2      \* scaled day length, in seconds
TicksPerSecond == 2     \* timestamp resolution: ticks per second

TicksPerDay == SecondsPerDay * TicksPerSecond

-----------------------------------------------------------------------------
(* Cells *)

NULL == "<NA>"          \* a missing cell (NaN / None)
ALL == "All"            \* the selectbox entry that switches a filter off

\* 'Date Submitted' cells.  A loaded cell is text that parses to instant t,
\* a missing cell, or text that does not parse; a converted cell is a
\* Timestamp or NaT.  Instants are counted in ticks.
Text(t) == [k |-> "text", t |-> t]
Missing == [k |-> "none", t |-> 0]
Unparseable == [k |-> "bad", t |-> 0]
Timestamp(t) == [k |-> "ts", t |-> t]
NaT == [k |-> "NaT", t |-> 0]

\* pd.to_datetime(..., errors='coerce') on one cell
ToDatetimeCoerce(c) ==
    CASE c.k = "text" -> Timestamp(c.t)
      [] c.k = "ts" -> c
      [] OTHER -> NaT

\* pd.to_datetime(column) with the default errors='raise' raises on text
\* that does not parse
ToDatetimeRaises(rows) == \E i \in DOMAIN rows : rows[i].date.k = "bad"

\* Series.dt.date of a Timestamp: the calendar day
DtDate(c) == c.t \div TicksPerDay

NotNa(c) == c.k \in {"text", "ts"}

-----------------------------------------------------------------------------
(* Frames *)

NoFrame == [obj |-> "none", rows |-> <<>>]
EmptyFrame == [obj |-> "empty", rows |-> <<>>]       \* pd.DataFrame()

IsEmpty(f) == Len(f.rows) = 0                        \* DataFrame.empty

\* frame[mask]: a new object holding the selected rows, in order
Slice(rows) == [obj |-> "slice", rows |-> rows]

RowIds(rows) == [i \in DOMAIN rows |-> rows[i].idx]

\* the distinct non-null values of a column: column.dropna().unique()
DropnaUnique(rows, col) ==
    {rows[i][col] : i \in DOMAIN rows} \ {NULL}

\* The frame whose rows carry the cells of f, indexed 1..Len(f)
Frame(f) ==
    [obj |-> "df",
     rows |-> [i \in DOMAIN f |->
                 [idx |-> i, nc |-> f[i].nc, date |-> f[i].date,
                  status |-> f[i].status, priority |-> f[i].priority,
                  origin |-> f[i].origin, customer |-> f[i].customer]]]

-----------------------------------------------------------------------------
(* main(): the sidebar block, app.py lines 84-174 *)

\* st.date_input("Date Range", value=(lo, hi), min_value=lo, max_value=hi):
\* the default range, any range picked inside it, or a lone start date
\* while the user is still picking the end
DateInputValues(lo, hi) ==
    {r \in (lo..hi) \X (lo..hi) : r[1] <= r[2]} \cup {<<a>> : a \in lo..hi}

\* ["All"] + sorted(column.dropna().unique().tolist())
SelectboxOptions(rows, col) == {ALL} \cup DropnaUnique(rows, col)

\* the instants of the cells pd.to_datetime() turns into Timestamps;
\* Series.min() and .max() skip NaT
ValidInstants(rows) == {rows[i].date.t : i \in {j \in DOMAIN rows : NotNa(rows[j].date)}}

SetMin(S) == CHOOSE x \in S : \A y \in S : x <= y
SetMax(S) == CHOOSE x \in S : \A y \in S : x >= y

\* the except branch leaving df as the try block left it
SidebarExceptKeepsDf ==
    /\ df' = IF load_raised THEN NoFrame ELSE sheet
    /\ date_range' = <<>>
    /\ ext_int_filter' = ALL
    /\ status_filter' = ALL
    /\ priority_filter' = ALL
    /\ load_error' = "Error loading data"

\* except Exception (lines 167-174)
SidebarExcept ==
    /\ df' = EmptyFrame
    /\ date_range' = <<>>
    /\ ext_int_filter' = ALL
    /\ status_filter' = ALL
    /\ priority_filter' = ALL
    /\ load_error' = "Error loading data"

\* df is None or df.empty (lines 159-165)
SidebarNoData ==
    /\ df' = EmptyFrame
    /\ date_range' = <<>>
    /\ ext_int_filter' = ALL
    /\ status_filter' = ALL
    /\ priority_filter' = ALL
    /\ load_error' = "No data available"

\* lines 101-158: the widgets are built from df and the user picks a value
\* in each
SidebarWidgets ==
    LET inst == ValidInstants(sheet.rows)
        ranges == IF inst = {} THEN {<<>>}
                  ELSE DateInputValues(SetMin(inst) \div TicksPerDay,
                                       SetMax(inst) \div TicksPerDay)
    IN  /\ df' = sheet
        /\ date_range' \in ranges
        /\ ext_int_filter' \in SelectboxOptions(sheet.rows, "origin")
        /\ status_filter' \in SelectboxOptions(sheet.rows, "status")
        /\ priority_filter' \in SelectboxOptions(sheet.rows, "priority")
        /\ load_error' = ""

\* The data-source collaborator (src/data_loader.py): load_nc_data() returns
\* the record set kept from the last fetch, or fetches the whole sheet and
\* keeps it; refresh_data() drops what is kept, so that the next load
\* fetches again.
NoCache == [filled |-> FALSE, frame |-> NoFrame, after |-> 0]

RefreshData(c) == NoCache

LoadNcData(c, sheet_now, n) ==
    IF c.filled THEN c ELSE [filled |-> TRUE, frame |-> sheet_now, after |-> n]

\* the button's branch without the call of refresh_data()
RefreshPressedNoRefresh ==
    /\ cache' = cache
    /\ presses' = presses + 1
    /\ button' = FALSE
    /\ pc' = "main_start"
    /\ UNCHANGED <<sheet, load_raised, loaded_after>>

\* lines 89-92: refresh_data(), st.success(...), then st.rerun() ends this
\* run and starts the script again, the button no longer pressed
RefreshPressed ==
    /\ cache' = RefreshData(cache)
    /\ presses' = presses + 1
    /\ button' = FALSE
    /\ pc' = "main_start"
    /\ UNCHANGED <<sheet, load_raised, loaded_after>>

\* line 99: df = load_nc_data(), which returns a record set or raises
MainLoad ==
    /\ pc' = "main"
    /\ UNCHANGED <<button, presses>>
    /\ \E raised \in BOOLEAN :
          /\ load_raised' = raised
          /\ IF raised
             THEN /\ sheet' = NoFrame
                  /\ UNCHANGED <<cache, loaded_after>>
             ELSE /\ cache' = LoadNcData(cache, source, presses)
                  /\ sheet' = cache'.frame
                  /\ loaded_after' = cache'.after

\* lines 84-99 of one run of the script
MainStart ==
    /\ pc = "main_start"
    /\ IF button THEN RefreshPressed ELSE MainLoad
    /\ UNCHANGED <<source, df, date_range, ext_int_filter, status_filter,
                   priority_filter, load_error, filtered_df, views,
                   status_counts, open_ncs, summary_df, tracker, today, week,
                   week_again, card>>

MainSidebar ==
    /\ pc = "main"
    /\ pc' = "main_body"
    /\ IF load_raised THEN SidebarExcept                      \* line 99
       ELSE IF IsEmpty(sheet) THEN SidebarNoData
       ELSE IF ToDatetimeRaises(sheet.rows) THEN SidebarExcept   \* line 103
       ELSE SidebarWidgets
    /\ UNCHANGED <<refreshVars, sheet, load_raised, filtered_df, views, status_counts, open_ncs,
                   summary_df, tracker, today, week, week_again, card>>

-----------------------------------------------------------------------------
(* main(): filters and tabs, app.py lines 176-237 *)

ViewNames == {"open_nc_status", "aging", "cost_of_rework", "cost_avoided",
              "customer", "pareto"}

\* a plain assignment instead of a copy: the same object
DfAlias(f) == f

\* df.copy(): a new object with the same rows (line 178)
DfCopy(f) == [obj |-> "copy", rows |-> f.rows]

\* What a variable holding `holder` shows after a column of the object
\* `written` was assigned: the new cells if both are the same object
AfterWrite(holder, written) ==
    IF written.obj = holder.obj THEN written ELSE holder

\* `if date_range and len(date_range) == 2` (line 181)
DateBoundActive(dr) == Len(dr) = 2

\* filtered_df['Date Submitted'] = pd.to_datetime(..., errors='coerce') (line 182)
ConvertDates(rows) ==
    [i \in DOMAIN rows |-> [rows[i] EXCEPT !.date = ToDatetimeCoerce(@)]]

\* the mask with the Timestamp itself compared against the two dates at
\* midnight
InDateRangeByInstant(c, dr) ==
    /\ c.k = "ts"
    /\ c.t >= dr[1] * TicksPerDay
    /\ c.t <= dr[2] * TicksPerDay

\* the mask written as "not before date_from and not after date_to", which
\* NaT satisfies
InDateRangeNotOutside(c, dr) ==
    /\ ~(c.k = "ts" /\ DtDate(c) < dr[1])
    /\ ~(c.k = "ts" /\ DtDate(c) > dr[2])

\* one element of the mask of lines 183-186 on a converted cell; a
\* comparison with NaT is False
InDateRange(c, dr) ==
    /\ c.k = "ts"
    /\ DtDate(c) >= dr[1]
    /\ DtDate(c) <= dr[2]

\* a lone start date read as a lower bound
DateStageFromStart(rows, dr) ==
    LET Keep(r) == InDateRange(r.date, dr)
        After(r) == NotNa(r.date) /\ DtDate(r.date) >= dr[1]
    IN  IF DateBoundActive(dr) THEN SelectSeq(rows, Keep)
        ELSE IF Len(dr) = 1 THEN SelectSeq(rows, After)
        ELSE rows

\* lines 181-187
DateStage(rows, dr) ==
    LET Keep(r) == InDateRange(r.date, dr)
    IN  IF DateBoundActive(dr) THEN SelectSeq(rows, Keep) ELSE rows

\* the comparison without the `!= "All"` guard
EqStageUnguarded(rows, col, f) ==
    LET Keep(r) == r[col] = f
    IN  SelectSeq(rows, Keep)

\* `if f != "All": filtered_df = filtered_df[filtered_df[col] == f]`
\* (lines 190-191, 194-195, 198-199)
EqStage(rows, col, f) ==
    LET Keep(r) == r[col] = f
    IN  IF f # ALL THEN SelectSeq(rows, Keep) ELSE rows

\* the status stage selecting from the unfiltered frame instead of from
\* filtered_df, which drops the stages before it
ApplyGlobalFiltersRestarting(rows, dr, ei, st, pr) ==
    EqStage(IF st # ALL THEN EqStage(rows, "status", st)
            ELSE EqStage(DateStage(rows, dr), "origin", ei),
            "priority", pr)

\* lines 180-199, in the order of the code
ApplyGlobalFilters(rows, dr, ei, st, pr) ==
    EqStage(EqStage(EqStage(DateStage(rows, dr), "origin", ei), "status", st),
            "priority", pr)

\* every tab called with the unfiltered frame
ViewArgsAllRaw(raw, filtered) == [v \in ViewNames |-> raw]

\* lines 218-234: the frame each tab's view is called with
ViewArgs(raw, filtered) ==
    [v \in ViewNames |-> IF v = "pareto" THEN raw ELSE filtered]

\* render_open_nc_status_tracker, src/src/kpi_cards.py: its locals before it
\* has run, and its first test
NotComputed == [k |-> "none", num |-> 0, den |-> 0]

NoTracker ==
    [outcome |-> "", total_ncs |-> 0, percentages |-> <<>>,
     open_percentage |-> NotComputed]

\* `if df.empty:` (kpi_cards.py line 34) never taken
TrackerNoDataNever(f) == FALSE

\* `if df.empty:` (kpi_cards.py line 34)
TrackerNoData(f) == IsEmpty(f)

\* The tracker called on line 219 returns at once when filtered_df has no
\* rows; what it does on rows is explored from its own entry.
MainBody ==
    /\ pc = "main_body"
    /\ pc' = "main_done"
    /\ IF IsEmpty(df)
       THEN /\ filtered_df' = NoFrame
            /\ views' = [v \in ViewNames |-> NoFrame]
            /\ UNCHANGED <<df, tracker>>
       ELSE LET copy == DfCopy(df)
                conv == IF DateBoundActive(date_range)
                        THEN [copy EXCEPT !.rows = ConvertDates(@)]
                        ELSE copy
                raw == AfterWrite(df, conv)
                kept == ApplyGlobalFilters(conv.rows, date_range, ext_int_filter,
                                           status_filter, priority_filter)
                sliced == \/ DateBoundActive(date_range)
                          \/ ext_int_filter # ALL
                          \/ status_filter # ALL
                          \/ priority_filter # ALL
                out == [obj |-> IF sliced THEN Slice(kept).obj ELSE conv.obj,
                        rows |-> kept]
            IN  /\ df' = raw
                /\ filtered_df' = out
                /\ views' = ViewArgs(raw, out)
                /\ tracker' = IF TrackerNoData(views'["open_nc_status"])
                              THEN [NoTracker EXCEPT !.outcome = "no data"]
                              ELSE tracker
    /\ UNCHANGED <<refreshVars, sheet, load_raised, date_range, ext_int_filter, status_filter,
                   priority_filter, load_error, status_counts, open_ncs,
                   summary_df, today, week, week_again, card>>

-----------------------------------------------------------------------------
(* render_open_nc_status_tracker(df), src/src/kpi_cards.py lines 18-243 *)

\* The value of a Python float expression: the number num / den, or the
\* ZeroDivisionError that `/` raises on a zero divisor
Number(num, den) == [k |-> "number", num |-> num, den |-> den]
ZeroDivisionError == [k |-> "ZeroDivisionError", num |-> 0, den |-> 0]

\* (count / total) * 100
Divide100(count, total) ==
    IF total = 0 THEN ZeroDivisionError ELSE Number(count * 100, total)

\* open_statuses (line 136)
OpenStatuses == {"Open", "In Progress", "Pending Review", "On Hold"}

\* Python's order of the strings that occur as group keys
StrOrder == <<"Cancelled", "Closed", "High", "In Progress", "Low", "Medium",
              "On Hold", "Open", "Pending Review">>
StrRank(s) == CHOOSE i \in DOMAIN StrOrder : StrOrder[i] = s
KeyLess(a, b) ==
    \/ StrRank(a[1]) < StrRank(b[1])
    \/ a[1] = b[1] /\ StrRank(a[2]) < StrRank(b[2])

\* column.value_counts(): the count of each distinct value; missing cells
\* are left out (dropna=True is the default)
ValueCounts(rows, col) ==
    [v \in DropnaUnique(rows, col) |->
        Cardinality({i \in DOMAIN rows : rows[i][col] = v})]

\* df[df['Status'].isin(open_statuses)] (line 137)
OpenNcs(rows) ==
    LET Keep(r) == r.status \in OpenStatuses
    IN  SelectSeq(rows, Keep)

\* the group keys of groupby(['Status', 'Priority']): rows with a missing
\* key cell belong to no group (dropna=True is the default)
GroupKeys(rows) ==
    {<<rows[i].status, rows[i].priority>> :
        i \in {j \in DOMAIN rows : rows[j].status # NULL /\ rows[j].priority # NULL}}

RECURSIVE SortKeys(_)
SortKeys(K) ==
    IF K = {} THEN <<>>
    ELSE LET m == CHOOSE k \in K : \A o \in K \ {k} : KeyLess(k, o)
         IN  <<m>> \o SortKeys(K \ {m})

\* groupby(..., sort=False): the groups in order of first appearance
GroupOrderFirstSeen(rows) ==
    LET First(r) ==
            /\ r.status # NULL
            /\ r.priority # NULL
            /\ \A j \in DOMAIN rows :
                  rows[j].idx < r.idx =>
                     <<rows[j].status, rows[j].priority>> # <<r.status, r.priority>>
        firsts == SelectSeq(rows, First)
    IN  [g \in DOMAIN firsts |-> <<firsts[g].status, firsts[g].priority>>]

\* groupby sorts the group keys (sort=True is the default)
GroupOrder(rows) == SortKeys(GroupKeys(rows))

\* lines 210-215: one row per group; 'NC Number': 'count' counts the
\* group's non-missing NC numbers
SummaryTable(rows) ==
    LET keys == GroupOrder(rows)
    IN  [g \in DOMAIN keys |->
            [Status |-> keys[g][1], Priority |-> keys[g][2],
             Count |-> Cardinality({i \in DOMAIN rows :
                          /\ rows[i].status = keys[g][1]
                          /\ rows[i].priority = keys[g][2]
                          /\ rows[i].nc # NULL})]]

\* total_ncs as df['NC Number'].count(), the number of non-missing NC numbers
TotalNcsCountsNcNumbers(rows) ==
    Cardinality({i \in DOMAIN rows : rows[i].nc # NULL})

\* total_ncs = len(df) (line 40)
TotalNcs(rows) == Len(rows)

\* st.columns(n) (line 55) raises StreamlitAPIException unless n is positive
ColumnsRaises(n) == n <= 0

\* `if idx < 5` (line 58): the statuses that get a card, the first five of
\* value_counts(), which lists the larger counts first
ShownStatuses(counts) ==
    IF Cardinality(DOMAIN counts) <= 5 THEN DOMAIN counts
    ELSE CHOOSE S \in SUBSET DOMAIN counts :
            /\ Cardinality(S) = 5
            /\ \A a \in S, b \in (DOMAIN counts) \ S : counts[a] >= counts[b]

\* Line 243 ends the procedure by calling render_current_week_detail_view(df)
\* with the same frame; that procedure is explored from its own entry.
RenderOpenNcStatusTracker ==
    /\ pc = "tracker"
    /\ pc' = "tracker_done"
    /\ IF TrackerNoData(df)
       THEN /\ tracker' = [NoTracker EXCEPT !.outcome = "no data"]   \* lines 34-36
            /\ UNCHANGED <<status_counts, open_ncs, summary_df>>
       ELSE LET counts == ValueCounts(df.rows, "status")
                total_ncs == TotalNcs(df.rows)
                seen == [NoTracker EXCEPT !.total_ncs = total_ncs]
                percentages ==                                        \* line 60
                    [s \in ShownStatuses(counts) |-> Divide100(counts[s], total_ncs)]
                open == OpenNcs(df.rows)
                open_percentage == Divide100(Len(open), total_ncs)    \* line 182
            IN  /\ status_counts' = counts
                /\ IF ColumnsRaises(Cardinality(ShownStatuses(counts)))
                   THEN /\ tracker' = [seen EXCEPT !.outcome = "StreamlitAPIException"]
                        /\ UNCHANGED <<open_ncs, summary_df>>
                   ELSE IF \E s \in DOMAIN percentages : percentages[s] = ZeroDivisionError
                   THEN /\ tracker' = [seen EXCEPT !.outcome = "ZeroDivisionError"]
                        /\ UNCHANGED <<open_ncs, summary_df>>
                   ELSE /\ open_ncs' = Slice(open)
                        /\ IF Len(open) = 0                          \* line 139
                           THEN /\ tracker' = [seen EXCEPT !.outcome = "rendered",
                                                   !.percentages = percentages]
                                /\ summary_df' = <<>>
                           ELSE IF open_percentage = ZeroDivisionError
                           THEN /\ tracker' = [seen EXCEPT !.outcome = "ZeroDivisionError",
                                                   !.percentages = percentages]
                                /\ UNCHANGED summary_df
                           ELSE /\ tracker' = [seen EXCEPT !.outcome = "rendered",
                                                   !.percentages = percentages,
                                                   !.open_percentage = open_percentage]
                                /\ summary_df' = SummaryTable(open)
    /\ UNCHANGED <<refreshVars, sheet, load_raised, df, date_range, ext_int_filter, status_filter,
                   priority_filter, load_error, filtered_df, views, today,
                   week, week_again, card>>

-----------------------------------------------------------------------------
(* render_current_week_detail_view(df), src/src/kpi_cards.py lines 246-527 *)

DaysPerWeek == 7

WeekOptions == {"Current Week", "Last Week", "Last 2 Weeks", "Last 4 Weeks",
                "Custom Range"}

\* the Monday found, without the replace() that sets the time to 00:00:00
CurrentWeekStartKeepsTime(now) ==
    now - ((now \div TicksPerDay) % DaysPerWeek) * TicksPerDay

\* lines 267-269: Monday 00:00:00 of the week of `now`; day 0 is a Monday,
\* so datetime.weekday() is the day number modulo 7
CurrentWeekStart(now) ==
    LET day == now \div TicksPerDay
    IN  (day - (day % DaysPerWeek)) * TicksPerDay

\* lines 292-318: (start_date, end_date) of the selected period; cs and ce
\* are the days picked in the two date inputs of "Custom Range"
PeriodWindow(period, now, cs, ce) ==
    LET cws == CurrentWeekStart(now)
    IN  CASE period = "Current Week" -> <<cws, now>>
          [] period = "Last Week" ->
                <<cws - DaysPerWeek * TicksPerDay, cws - TicksPerSecond>>
          [] period = "Last 2 Weeks" -> <<cws - 14 * TicksPerDay, now>>
          [] period = "Last 4 Weeks" -> <<cws - 28 * TicksPerDay, now>>
          [] OTHER -> <<cs * TicksPerDay, ce * TicksPerDay + TicksPerDay - 1>>

\* lines 321-323: dropna on the converted column, then both comparisons
InPeriod(c, win) ==
    /\ c.k = "ts"
    /\ c.t >= win[1]
    /\ c.t <= win[2]

WeekRows(rows, win) ==
    LET Keep(r) == InPeriod(r.date, win)
    IN  SelectSeq(rows, Keep)

\* line 345
OpenCount(rows) == Len(OpenNcs(rows))

\* The characters of the cell texts that DataFrame.astype(str) produces.
\* A missing cell reads "nan"; a Timestamp reads as digits and punctuation.
Spell(s) ==
    CASE s = "NC-1" -> <<"N", "C", "-", "1">>
      [] s = "Open" -> <<"O", "p", "e", "n">>
      [] s = "Closed" -> <<"C", "l", "o", "s", "e", "d">>
      [] s = "Cancelled" -> <<"C", "a", "n", "c", "e", "l", "l", "e", "d">>
      [] s = "On Hold" -> <<"O", "n", " ", "H", "o", "l", "d">>
      [] s = "High" -> <<"H", "i", "g", "h">>
      [] s = "Low" -> <<"L", "o", "w">>
      [] s = "External" -> <<"E", "x", "t", "e", "r", "n", "a", "l">>
      [] s = "Internal" -> <<"I", "n", "t", "e", "r", "n", "a", "l">>
      [] s = "Acme" -> <<"A", "c", "m", "e">>
      [] s = "Bolt" -> <<"B", "o", "l", "t">>
      [] s = "CME" -> <<"C", "M", "E">>
      [] s = NULL -> <<"n", "a", "n">>
      [] OTHER -> <<>>

Uppercase == <<"A", "B", "C", "D", "E", "F", "G", "H", "I", "J", "K", "L", "M",
               "N", "O", "P", "Q", "R", "S", "T", "U", "V", "W", "X", "Y", "Z">>
Lowercase == <<"a", "b", "c", "d", "e", "f", "g", "h", "i", "j", "k", "l", "m",
               "n", "o", "p", "q", "r", "s", "t", "u", "v", "w", "x", "y", "z">>

\* case=False: both sides are compared in one case
Fold(w) ==
    [i \in DOMAIN w |->
        IF \E j \in DOMAIN Uppercase : Uppercase[j] = w[i]
        THEN Lowercase[CHOOSE j \in DOMAIN Uppercase : Uppercase[j] = w[i]]
        ELSE w[i]]

Contains(hay, needle) ==
    \E i \in 0..(Len(hay) - Len(needle)) :
        SubSeq(hay, i + 1, i + Len(needle)) = needle

\* row.str.contains(search_term, case=False, na=False).any() (lines 439-442),
\* for a term of letters only (the term is read as a regular expression)
RowMatches(r, term) ==
    \E cell \in {Spell(r.nc), <<"0">>, Spell(r.status), Spell(r.priority),
                Spell(r.origin), Spell(r.customer)} :
        Contains(Fold(cell), Fold(Spell(term)))

\* lines 438-443
SearchStage(rows, term) ==
    LET Keep(r) == RowMatches(r, term)
    IN  IF term # "" THEN SelectSeq(rows, Keep) ELSE rows

\* lines 417-443, in the order of the code
ApplyDetailFilters(rows, st, pr, ei, cu, term) ==
    SearchStage(
        EqStage(EqStage(EqStage(EqStage(rows, "status", st), "priority", pr),
                        "origin", ei), "customer", cu),
        term)

SearchTerms == {"", "CME"}
CustomDays == {7, 9}

NoWeek ==
    [outcome |-> "", today |-> 0, current_week_start |-> 0, period |-> "",
     start_date |-> 0, end_date |-> 0, week_df |-> <<>>, open_count |-> 0,
     status_filter |-> ALL, priority_filter |-> ALL, ext_int_filter |-> ALL,
     customer_filter |-> ALL, search_term |-> "", filtered_df |-> <<>>]

\* lines 267-334: the locals up to the test of week_df, on the converted
\* rows, a clock reading and the values of the period widgets
WeekPeriod(rows, now, period, cs, ce) ==
    LET win == PeriodWindow(period, now, cs, ce)
        week_df == WeekRows(rows, win)
    IN  [NoWeek EXCEPT !.outcome = IF Len(week_df) = 0 THEN "no rows" ELSE "shown",
                       !.today = now,
                       !.current_week_start = CurrentWeekStart(now),
                       !.period = period,
                       !.start_date = win[1],
                       !.end_date = win[2],
                       !.week_df = week_df]

\* lines 336-443: the locals after the metrics, the four selectboxes and
\* the search box
WeekDetail(seen, st, pr, ei, cu, term) ==
    [seen EXCEPT !.open_count = OpenCount(seen.week_df),
                 !.status_filter = st,
                 !.priority_filter = pr,
                 !.ext_int_filter = ei,
                 !.customer_filter = cu,
                 !.search_term = term,
                 !.filtered_df = ApplyDetailFilters(seen.week_df, st, pr, ei, cu, term)]

RenderCurrentWeekDetailView ==
    /\ pc = "week"
    /\ pc' = "week_done"
    /\ IF IsEmpty(df)
       THEN /\ week' = [NoWeek EXCEPT !.outcome = "no data"]      \* lines 258-260
            /\ UNCHANGED df
       ELSE LET copy == DfCopy(df)
                conv == [copy EXCEPT !.rows = ConvertDates(@)]    \* lines 263-264
            IN  /\ df' = AfterWrite(df, conv)
                /\ \E period \in WeekOptions, cs \in CustomDays, ce \in CustomDays :
                     LET seen == WeekPeriod(conv.rows, today, period, cs, ce)
                     IN  /\ period # "Custom Range" => (cs = 7 /\ ce = 7)
                         /\ IF seen.outcome = "no rows"
                            THEN week' = seen                      \* lines 332-334
                            ELSE \E st \in SelectboxOptions(seen.week_df, "status"),
                                    pr \in SelectboxOptions(seen.week_df, "priority"),
                                    ei \in SelectboxOptions(seen.week_df, "origin"),
                                    cu \in SelectboxOptions(seen.week_df, "customer"),
                                    term \in SearchTerms :
                                   week' = WeekDetail(seen, st, pr, ei, cu, term)
    /\ UNCHANGED <<refreshVars, sheet, load_raised, date_range, ext_int_filter, status_filter,
                   priority_filter, load_error, filtered_df, views,
                   status_counts, open_ncs, summary_df, tracker, today,
                   week_again, card>>

\* How far the clock moves between two runs of the script
ClockSteps == {0, 1, TicksPerDay, DaysPerWeek * TicksPerDay}

\* A widget created with a key keeps its value in the next run while the
\* value is among its options, and shows the first option otherwise
Kept(value, options) == IF value \in options THEN value ELSE ALL

\* The next run of the script calls the procedure with the same frame and
\* the same widget values; datetime.now() on line 267 reads the clock again.
RerunCurrentWeekDetailView ==
    /\ pc = "week_done"
    /\ pc' = "week_again_done"
    /\ \E step \in ClockSteps :
          /\ today' = today + step
          /\ IF IsEmpty(df)
             THEN week_again' = [NoWeek EXCEPT !.outcome = "no data"]
             ELSE LET conv == ConvertDates(DfCopy(df).rows)
                      cs == week.start_date \div TicksPerDay
                      ce == week.end_date \div TicksPerDay
                      seen == WeekPeriod(conv, today', week.period, cs, ce)
                  IN  week_again' =
                         IF seen.outcome = "no rows" THEN seen
                         ELSE WeekDetail(seen,
                                 Kept(week.status_filter,
                                      SelectboxOptions(seen.week_df, "status")),
                                 Kept(week.priority_filter,
                                      SelectboxOptions(seen.week_df, "priority")),
                                 Kept(week.ext_int_filter,
                                      SelectboxOptions(seen.week_df, "origin")),
                                 Kept(week.customer_filter,
                                      SelectboxOptions(seen.week_df, "customer")),
                                 week.search_term)
    /\ UNCHANGED <<refreshVars, sheet, load_raised, df, date_range, ext_int_filter,
                   status_filter, priority_filter, load_error, filtered_df,
                   views, status_counts, open_ncs, summary_df, tracker, week,
                   card>>

-----------------------------------------------------------------------------
(* render_status_kpi_card(status, count, total, color),
   src/src/kpi_cards.py lines 530-553 *)

\* the expression without its condition
KpiPercentageUnguarded(count, total) == Divide100(count, total)

\* line 545: (count / total) * 100 if total > 0 else 0; the division is
\* evaluated only when the condition holds
KpiPercentage(count, total) ==
    IF total > 0 THEN Divide100(count, total) ELSE Number(0, 1)

\* f"{percentage:.1f}": the number of tenths nearest to a non-negative
\* number, a tie going to the even one
OneDecimal(p) ==
    LET q == (p.num * 10) \div p.den
        r == (p.num * 10) % p.den
    IN  IF 2 * r > p.den \/ (2 * r = p.den /\ q % 2 = 1) THEN q + 1 ELSE q

NoCard ==
    [outcome |-> "", count |-> 0, total |-> 0, percentage |-> Number(0, 1),
     shown |-> 0]

RenderStatusKpiCard ==
    /\ pc = "card"
    /\ pc' = "card_done"
    /\ LET percentage == KpiPercentage(card.count, card.total)
       IN  card' = IF percentage.k = "number"
                   THEN [card EXCEPT !.outcome = "rendered",
                                     !.percentage = percentage,
                                     !.shown = OneDecimal(percentage)]   \* line 551
                   ELSE [card EXCEPT !.outcome = "raised",
                                     !.percentage = percentage]
    /\ UNCHANGED <<refreshVars, sheet, load_raised, df, date_range, ext_int_filter, status_filter,
                   priority_filter, load_error, filtered_df, views,
                   status_counts, open_ncs, summary_df, tracker, today, week,
                   week_again>>

-----------------------------------------------------------------------------
(* Inputs *)

\* Rows main() is run on: every 'Date Submitted' cell kind, on three days
\* and at both ends of a day
MainDays == {8, 9, 10}
MainDates ==
    {Missing, Unparseable}
        \cup {Text(d * TicksPerDay) : d \in MainDays \ {8}}
        \cup {Text(d * TicksPerDay + TicksPerDay - 1) : d \in MainDays \ {10}}

MainRowDomain ==
    { r \in [nc : {"NC-1"}, date : MainDates, status : {"Open", "Closed"},
             priority : {"High"}, origin : {"External", "Internal"},
             customer : {"Acme"}] :
        r.date = Unparseable => (r.status = "Open" /\ r.origin = "External") }

InitMain ==
    /\ pc = "main"
    /\ \/ load_raised = TRUE /\ sheet = NoFrame
       \/ /\ load_raised = FALSE
          /\ \E k \in 0..MaxRows : \E f \in [1..k -> MainRowDomain] : sheet = Frame(f)
    /\ today = 0

\* Rows the status tracker is run on
TrackerRowDomain ==
    { r \in [nc : {"NC-1", NULL}, date : {Missing},
             status : {"On Hold", "Open", "Closed", "Cancelled", NULL},
             priority : {"High", "Low", NULL}, origin : {"External"},
             customer : {"Acme"}] :
        r.nc = NULL => (r.status = "Open" /\ r.priority = "High") }

InitTracker ==
    /\ pc = "tracker"
    /\ \E k \in 0..MaxTrackerRows :
          \E f \in [1..k -> TrackerRowDomain] : sheet = Frame(f)
    /\ load_raised = FALSE
    /\ today = 0

\* Rows and clock readings the week detail view is run on: day 9 is the
\* Wednesday of the week that starts on day 7
NowDomain == {9 * TicksPerDay + 2}
WeekDates == {Missing, Text(2 * TicksPerDay + 1), Text(7 * TicksPerDay)}

WeekRowDomain ==
    [nc : {"NC-1"}, date : WeekDates, status : {"Open", "Cancelled"},
     priority : {"High"}, origin : {"External"}, customer : {"Acme", "Bolt"}]

InitWeek ==
    /\ pc = "week"
    /\ \E k \in 0..MaxRows : \E f \in [1..k -> WeekRowDomain] : sheet = Frame(f)
    /\ load_raised = FALSE
    /\ today \in NowDomain

\* Arguments the KPI card is called with
InitCard ==
    /\ pc = "card"
    /\ sheet = NoFrame
    /\ load_raised = FALSE
    /\ today = 0

\* Rows and clock readings for the week boundaries: every tick of the week
\* that starts on day 7, up to the next Monday 00:00:00, and one-row frames
\* dated around the Monday of that week and of the week before
ClockDomain == (7 * TicksPerDay)..(14 * TicksPerDay)
ClockDates ==
    {Text(0), Text(7 * TicksPerDay - TicksPerSecond), Text(7 * TicksPerDay - 1),
     Text(7 * TicksPerDay), Text(8 * TicksPerDay + 1)}

ClockRowDomain ==
    [nc : {"NC-1"}, date : ClockDates, status : {"Open"}, priority : {"High"},
     origin : {"External"}, customer : {"Acme"}]

InitWeekClock ==
    /\ pc = "week"
    /\ \E k \in 0..1 : \E f \in [1..k -> ClockRowDomain] : sheet = Frame(f)
    /\ load_raised = FALSE
    /\ today \in ClockDomain

InitLocals ==
    /\ df = IF pc = "main" THEN NoFrame ELSE sheet
    /\ date_range = <<>>
    /\ ext_int_filter = ALL
    /\ status_filter = ALL
    /\ priority_filter = ALL
    /\ load_error = ""
    /\ filtered_df = NoFrame
    /\ views = [v \in ViewNames |-> NoFrame]
    /\ status_counts = <<>>
    /\ open_ncs = NoFrame
    /\ summary_df = <<>>
    /\ tracker = NoTracker
    /\ week = NoWeek
    /\ week_again = NoWeek
    /\ IF pc = "card"
       THEN \E count \in 0..MaxCount, total \in 0..MaxCount :
               card = [NoCard EXCEPT !.count = count, !.total = total]
       ELSE card = NoCard

NoSession ==
    /\ source = NoFrame
    /\ cache = NoCache
    /\ button = FALSE
    /\ presses = 0
    /\ loaded_after = 0

Init ==
    /\ InitMain \/ InitTracker \/ InitWeek \/ InitCard
    /\ NoSession
    /\ InitLocals

Next ==
    \/ MainSidebar
    \/ MainBody
    \/ RenderOpenNcStatusTracker
    \/ RenderCurrentWeekDetailView
    \/ RenderStatusKpiCard

Spec == Init /\ [][Next]_vars

-----------------------------------------------------------------------------
(* A session of main(): runs of the script, with the refresh button *)

\* What the spreadsheet may hold
RefreshRowDomain ==
    {[nc |-> "NC-1", date |-> Text(8 * TicksPerDay), status |-> "Open",
      priority |-> "High", origin |-> "External", customer |-> "Acme"],
     [nc |-> "NC-1", date |-> Text(9 * TicksPerDay), status |-> "Closed",
      priority |-> "High", origin |-> "External", customer |-> "Acme"]}
RefreshSheets == {Frame(<<>>)} \cup {Frame(<<r>>) : r \in RefreshRowDomain}

InitSession ==
    /\ pc = "main_start"
    /\ source \in RefreshSheets
    /\ cache \in {NoCache} \cup
                  {[filled |-> TRUE, frame |-> f, after |-> 0] : f \in RefreshSheets}
    /\ button \in BOOLEAN
    /\ presses = 0
    /\ loaded_after = 0
    /\ sheet = NoFrame
    /\ load_raised = FALSE
    /\ today = 0
    /\ InitLocals

\* Streamlit runs the script again on the user's next action, which may be
\* a press of "Refresh Data"; the page is rebuilt from nothing
NextRun ==
    /\ pc = "main_done"
    /\ pc' = "main_start"
    /\ button' \in IF presses < MaxPresses THEN BOOLEAN ELSE {FALSE}
    /\ sheet' = NoFrame
    /\ load_raised' = FALSE
    /\ df' = NoFrame
    /\ date_range' = <<>>
    /\ ext_int_filter' = ALL
    /\ status_filter' = ALL
    /\ priority_filter' = ALL
    /\ load_error' = ""
    /\ filtered_df' = NoFrame
    /\ views' = [v \in ViewNames |-> NoFrame]
    /\ tracker' = NoTracker
    /\ UNCHANGED <<source, cache, presses, loaded_after, status_counts,
                   open_ncs, summary_df, today, week, week_again, card>>

\* Somebody edits the spreadsheet
SheetEdited ==
    /\ source' \in RefreshSheets \ {source}
    /\ UNCHANGED <<pc, cache, button, presses, loaded_after, sheet, load_raised,
                   df, date_range, ext_int_filter, status_filter,
                   priority_filter, load_error, filtered_df, views,
                   status_counts, open_ncs, summary_df, tracker, today, week,
                   week_again, card>>

NextSession ==
    \/ MainStart
    \/ MainSidebar
    \/ MainBody
    \/ NextRun
    \/ SheetEdited

SpecSession == InitSession /\ [][NextSession]_vars

\* The week detail view in two successive runs of the script, over the
\* clock readings of a whole week
InitWeekRuns == InitWeekClock /\ NoSession /\ InitLocals

NextWeekRuns ==
    \/ RenderCurrentWeekDetailView
    \/ RerunCurrentWeekDetailView

SpecWeek == InitWeekRuns /\ [][NextWeekRuns]_vars

-----------------------------------------------------------------------------
(* Vocabulary of the properties *)

MainRan == pc = "main_done" /\ ~IsEmpty(df)
TrackerRan == pc = "tracker_done" /\ ~IsEmpty(df)
WeekShown == pc = "week_done" /\ week.outcome = "shown"

IdSet(rows) == {rows[i].idx : i \in DOMAIN rows}

\* the categorical predicates of the sidebar, on one row
CategoricalOk(r) ==
    /\ ext_int_filter # ALL => r.origin = ext_int_filter
    /\ status_filter # ALL => r.status = status_filter
    /\ priority_filter # ALL => r.priority = priority_filter

\* the date predicate of the sidebar, on one loaded row
DateOk(r) ==
    DateBoundActive(date_range) =>
        /\ NotNa(r.date)
        /\ date_range[1] <= r.date.t \div TicksPerDay
        /\ r.date.t \div TicksPerDay <= date_range[2]

PassesGlobal(r) == DateOk(r) /\ CategoricalOk(r)

\* the rows of df that satisfy every active global predicate, in order
GlobalSelection == SelectSeq(df.rows, PassesGlobal)

RECURSIVE SumOver(_, _)
SumOver(f, S) ==
    IF S = {} THEN 0
    ELSE LET x == CHOOSE y \in S : TRUE
         IN  f[x] + SumOver(f, S \ {x})

-----------------------------------------------------------------------------
(* C1 *)

\* C1: every record whose status is a string other than 'Closed', known to
\* the program or not, is in the open class: it is a row of open_ncs in the
\* status tracker, and it is counted by the 'Open NCs' metric of the week
\* detail view.
C1_OpenClassIsTotal ==
    /\ TrackerRan =>
         \A i \in DOMAIN df.rows :
            df.rows[i].status \notin {"Closed", NULL}
               => df.rows[i].idx \in IdSet(open_ncs.rows)
    /\ WeekShown =>
         week.open_count =
            Cardinality({i \in DOMAIN week.week_df :
                            week.week_df[i].status \notin {"Closed", NULL}})

-----------------------------------------------------------------------------
(* C2 *)

\* C2 as stated: no view is called with a row that the global filters
\* exclude.  It is stated for the selections that leave the origin filter
\* at 'All', the one filter value the Pareto view is also given.
C2_NoViewGetsExcludedRows ==
    (MainRan /\ ext_int_filter = ALL) =>
        \A v \in ViewNames : IdSet(views[v].rows) \subseteq IdSet(GlobalSelection)

\* C2 amended: the five views other than the issue-type Pareto are called
\* with exactly the rows that pass every active global filter, in order;
\* the Pareto view is called with the unfiltered loaded record set.
C2_FiveViewsGetFilteredSet ==
    MainRan =>
        /\ \A v \in ViewNames \ {"pareto"} :
              RowIds(views[v].rows) = RowIds(GlobalSelection)
        /\ views["pareto"].rows = sheet.rows

C2_Witness ==
    /\ MainRan
    /\ Len(filtered_df.rows) = 1
    /\ Len(df.rows) = 2
    /\ Len(views["aging"].rows) = 1
    /\ Len(views["pareto"].rows) = 2

-----------------------------------------------------------------------------
(* C3 *)

\* C3: the per-status counts of the status tally sum to the number of
\* records, a record with a missing status being counted under
\* 'Unspecified'.
C3_TallyCountsEveryRecord ==
    TrackerRan =>
        /\ SumOver(status_counts, DOMAIN status_counts) = Len(df.rows)
        /\ (\E i \in DOMAIN df.rows : df.rows[i].status = NULL)
              => "Unspecified" \in DOMAIN status_counts

-----------------------------------------------------------------------------
(* C4 *)

\* C4: the Count column of the Open NCs summary table sums to the number
\* of rows of open_ncs, the frame the table is computed from.
C4_RollupPartitionsInput ==
    (TrackerRan /\ ~IsEmpty(open_ncs)) =>
        SumOver([g \in DOMAIN summary_df |-> summary_df[g].Count],
                DOMAIN summary_df) = Len(open_ncs.rows)

-----------------------------------------------------------------------------
(* C5 *)

\* C5: with no date bound and every selectbox at 'All' the filtered record
\* set is the loaded record set (same rows, same order); under every filter
\* setting it has no more rows than the loaded one.
C5_FilterIdentityAndShrink ==
    /\ (/\ MainRan
        /\ ~DateBoundActive(date_range)
        /\ ext_int_filter = ALL
        /\ status_filter = ALL
        /\ priority_filter = ALL) => filtered_df.rows = sheet.rows
    /\ pc = "main_done" => Len(filtered_df.rows) <= Len(df.rows)

C5_Witness ==
    /\ MainRan
    /\ Len(date_range) = 1
    /\ ext_int_filter = ALL
    /\ status_filter = ALL
    /\ priority_filter = ALL
    /\ Len(filtered_df.rows) = 2
    /\ filtered_df.rows[1].date # filtered_df.rows[2].date

-----------------------------------------------------------------------------
(* C6 *)

\* the predicates of the week detail view, on one row of week_df
PassesDetail(r) ==
    /\ week.status_filter # ALL => r.status = week.status_filter
    /\ week.priority_filter # ALL => r.priority = week.priority_filter
    /\ week.ext_int_filter # ALL => r.origin = week.ext_int_filter
    /\ week.customer_filter # ALL => r.customer = week.customer_filter
    /\ week.search_term # "" => RowMatches(r, week.search_term)

\* the global filters applied in the reverse of the code's order, and with
\* the date stage moved between the categorical ones
GlobalReversed(rows) ==
    DateStage(EqStage(EqStage(EqStage(rows, "priority", priority_filter),
                              "status", status_filter),
                      "origin", ext_int_filter), date_range)
GlobalRotated(rows) ==
    EqStage(DateStage(EqStage(EqStage(rows, "status", status_filter),
                              "priority", priority_filter), date_range),
            "origin", ext_int_filter)

\* the detail filters applied in the reverse of the code's order
DetailReversed(rows) ==
    EqStage(EqStage(EqStage(EqStage(SearchStage(rows, week.search_term),
                                    "customer", week.customer_filter),
                            "origin", week.ext_int_filter),
                    "priority", week.priority_filter),
            "status", week.status_filter)

\* C6: the filtered record set is the subsequence, in source order, of the
\* input rows that satisfy every active predicate, in main() and in the
\* week detail view, and applying the predicates in another order gives the
\* same rows.
C6_FiltersAreConjunction ==
    /\ MainRan =>
         /\ RowIds(filtered_df.rows) = RowIds(GlobalSelection)
         /\ \A i \in DOMAIN filtered_df.rows :
               \E j \in DOMAIN df.rows :
                  /\ df.rows[j].idx = filtered_df.rows[i].idx
                  /\ [df.rows[j] EXCEPT !.date = ToDatetimeCoerce(@)]
                        = [filtered_df.rows[i] EXCEPT !.date = ToDatetimeCoerce(@)]
         /\ DateBoundActive(date_range) =>
               /\ GlobalReversed(ConvertDates(df.rows)) = filtered_df.rows
               /\ GlobalRotated(ConvertDates(df.rows)) = filtered_df.rows
         /\ ~DateBoundActive(date_range) =>
               /\ GlobalReversed(df.rows) = filtered_df.rows
               /\ GlobalRotated(df.rows) = filtered_df.rows
    /\ WeekShown =>
         /\ week.filtered_df = SelectSeq(week.week_df, PassesDetail)
         /\ DetailReversed(week.week_df) = week.filtered_df

C6_Witness ==
    /\ MainRan
    /\ DateBoundActive(date_range)
    /\ ext_int_filter # ALL
    /\ Len(df.rows) = 2
    /\ ~DateOk(df.rows[1])
    /\ CategoricalOk(df.rows[1])
    /\ PassesGlobal(df.rows[2])
    /\ RowIds(filtered_df.rows) = <<2>>

-----------------------------------------------------------------------------
(* C7 *)

\* C7: under an active date bound a row with a valid submission instant
\* passes the date filter iff the instant lies between the first tick of the
\* date_from day and the last tick of the date_to day, whatever its time of
\* day.
C7_DateBoundsInclusiveByDay ==
    (MainRan /\ DateBoundActive(date_range)) =>
        \A i \in DOMAIN df.rows :
            (NotNa(df.rows[i].date) /\ CategoricalOk(df.rows[i])) =>
                (df.rows[i].idx \in IdSet(filtered_df.rows)
                    <=> /\ date_range[1] * TicksPerDay <= df.rows[i].date.t
                        /\ df.rows[i].date.t < (date_range[2] + 1) * TicksPerDay)

C7_Witness ==
    /\ MainRan
    /\ DateBoundActive(date_range)
    /\ \E i \in DOMAIN filtered_df.rows :
          /\ filtered_df.rows[i].date.t \div TicksPerDay = date_range[2]
          /\ filtered_df.rows[i].date.t % TicksPerDay > 0

-----------------------------------------------------------------------------
(* C8 *)

-----------------------------------------------------------------------------
(* C9 *)

\* C9: after main() has filtered, and after the week detail view has run,
\* the frame they were given holds the same rows, in the same order, with
\* the same cells as before.
C9_SourceNotMutated ==
    /\ MainRan => df = sheet
    /\ pc = "week_done" => df = sheet

C9_Witness ==
    /\ MainRan
    /\ DateBoundActive(date_range)
    /\ Len(filtered_df.rows) = 2
    /\ filtered_df.rows[1].date.k = "ts"
    /\ df.rows[1].date.k = "text"

-----------------------------------------------------------------------------
(* C10 *)

NoMissingCell ==
    \A i \in DOMAIN df.rows :
        /\ df.rows[i].nc # NULL
        /\ df.rows[i].status # NULL
        /\ df.rows[i].priority # NULL

\* C10 as stated: the rows of the summary table are in descending order of
\* Count, rows of equal Count in ascending order of (Status, Priority).  It is
\* stated for record sets without a missing cell, where every Count is the
\* size of its group.
C10_OrderedByCountThenKey ==
    (TrackerRan /\ NoMissingCell) =>
        \A g, h \in DOMAIN summary_df :
            g < h =>
                \/ summary_df[g].Count > summary_df[h].Count
                \/ /\ summary_df[g].Count = summary_df[h].Count
                   /\ KeyLess(<<summary_df[g].Status, summary_df[g].Priority>>,
                              <<summary_df[h].Status, summary_df[h].Priority>>)

\* C10 amended: the summary table has one row per (Status, Priority)
\* combination present among the open NCs whose Status and Priority are both
\* given, and its rows are in ascending order of (Status, Priority) whatever
\* their counts.
C10_OrderedByKey ==
    TrackerRan =>
        /\ \A g, h \in DOMAIN summary_df :
              g < h => KeyLess(<<summary_df[g].Status, summary_df[g].Priority>>,
                               <<summary_df[h].Status, summary_df[h].Priority>>)
        /\ {<<summary_df[g].Status, summary_df[g].Priority>> : g \in DOMAIN summary_df}
              = {<<open_ncs.rows[i].status, open_ncs.rows[i].priority>> :
                    i \in {j \in DOMAIN open_ncs.rows :
                             /\ open_ncs.rows[j].status # NULL
                             /\ open_ncs.rows[j].priority # NULL}}

C10_Witness ==
    /\ TrackerRan
    /\ NoMissingCell
    /\ Len(summary_df) = 2
    /\ summary_df[1].Count < summary_df[2].Count
    /\ summary_df[1].Status # summary_df[2].Status

-----------------------------------------------------------------------------
(* C11 *)

CardRan == pc = "card_done"

\* C11 as stated: a KPI card rendered with total = 0 reports its percentage
\* as undefined, not as a number, and does not evaluate the division.
C11_ZeroTotalIsUndefined ==
    (CardRan /\ card.total = 0) =>
        /\ card.outcome = "rendered"
        /\ card.percentage.k = "undefined"

\* C11 amended: a KPI card rendered with total = 0 does not evaluate the
\* division and reports the percentage as the number 0, shown as 0.0; with
\* total > 0 it reports count / total * 100.
C11_ZeroTotalIsZero ==
    CardRan =>
        /\ card.outcome = "rendered"
        /\ card.total = 0 =>
              /\ card.percentage = Number(0, 1)
              /\ card.shown = 0
        /\ card.total > 0 =>
              /\ card.percentage.num * card.total = card.count * 100 * card.percentage.den
              /\ card.percentage.den # 0

C11_Witness ==
    /\ CardRan
    /\ card.total = 0
    /\ card.count > 0
    /\ card.outcome = "rendered"
    /\ card.shown = 0

-----------------------------------------------------------------------------
(* C12 *)

\* C12: on a record set without rows the status tracker and the week detail
\* view end normally with no tally, roll-up or table computed, also when the
\* tracker is called by main() on a filtered set from which the global
\* filters removed every row of a non-empty load; the roll-up of the tracker
\* and the period of the week view are empty, and end normally, when no row
\* is open or in the period.
C12_EmptyInputCompletes ==
    /\ (pc = "tracker_done" /\ IsEmpty(df)) =>
          /\ tracker = [NoTracker EXCEPT !.outcome = "no data"]
          /\ status_counts = <<>>
          /\ open_ncs = NoFrame
          /\ summary_df = <<>>
    /\ (pc = "main_done" /\ ~IsEmpty(df) /\ IsEmpty(filtered_df)) =>
          /\ views["open_nc_status"].rows = <<>>
          /\ tracker = [NoTracker EXCEPT !.outcome = "no data"]
    /\ (TrackerRan /\ tracker.outcome = "rendered" /\ IsEmpty(open_ncs)) =>
          summary_df = <<>>
    /\ (pc = "week_done" /\ IsEmpty(df)) =>
          week = [NoWeek EXCEPT !.outcome = "no data"]
    /\ (pc = "week_done" /\ ~IsEmpty(df) /\ week.week_df = <<>>) =>
          /\ week.outcome = "no rows"
          /\ week.filtered_df = <<>>
          /\ week.open_count = 0

C12_Witness ==
    /\ pc = "main_done"
    /\ Len(df.rows) = 2
    /\ ext_int_filter # ALL
    /\ status_filter # ALL
    /\ IsEmpty(filtered_df)
    /\ tracker.outcome = "no data"

-----------------------------------------------------------------------------
(* C18 *)

\* C18: the status tracker raises no ZeroDivisionError: every division it
\* evaluates, the percentage of each status card and the open-NC rate, has
\* total_ncs >= 1 as its divisor, and is evaluated only on a record set with
\* at least one row.
C18_NoDivisionByZero ==
    pc = "tracker_done" =>
        /\ tracker.outcome # "ZeroDivisionError"
        /\ \A s \in DOMAIN tracker.percentages :
              /\ tracker.percentages[s].k = "number"
              /\ tracker.percentages[s].den >= 1
              /\ Len(df.rows) >= 1
        /\ tracker.open_percentage # NotComputed =>
              /\ tracker.open_percentage.k = "number"
              /\ tracker.open_percentage.den >= 1
              /\ Len(df.rows) >= 1

C18_Witness ==
    /\ pc = "tracker_done"
    /\ tracker.outcome = "rendered"
    /\ Cardinality(DOMAIN tracker.percentages) = 2
    /\ \E i \in DOMAIN df.rows : df.rows[i].nc = NULL
    /\ tracker.open_percentage = Number(100, 3)

-----------------------------------------------------------------------------
(* C15 *)

\* the try block of the sidebar raised: load_nc_data() itself, or the
\* conversion of the loaded dates on line 103
TryBlockRaised ==
    load_raised \/ (~IsEmpty(sheet) /\ ToDatetimeRaises(sheet.rows))

\* C15: when the load raises, main() ends with an empty record set, every
\* filter at 'All', no date range, the error message shown, no filtered set
\* and none of the six views called.
C15_LoadErrorNoPartialResult ==
    (pc \in {"main_body", "main_done"} /\ TryBlockRaised) =>
        /\ df = EmptyFrame
        /\ date_range = <<>>
        /\ ext_int_filter = ALL
        /\ status_filter = ALL
        /\ priority_filter = ALL
        /\ load_error = "Error loading data"
        /\ filtered_df = NoFrame
        /\ \A v \in ViewNames : views[v] = NoFrame
        /\ tracker = NoTracker

C15_Witness ==
    /\ pc = "main_done"
    /\ load_raised
    /\ df = EmptyFrame
    /\ load_error = "Error loading data"
    /\ views["pareto"] = NoFrame

-----------------------------------------------------------------------------
(* C19 *)

\* C19: when the date input holds fewer than two endpoints, a lone start
\* date or no range at all, the filtered set is the rows that satisfy the
\* active categorical filters, whatever their submission date, dated before
\* the start date or undated.
C19_NoDatePredicateBelowTwoEndpoints ==
    (MainRan /\ Len(date_range) < 2) =>
        /\ \A i \in DOMAIN df.rows :
              df.rows[i].idx \in IdSet(filtered_df.rows) <=> CategoricalOk(df.rows[i])
        /\ filtered_df.rows =
              EqStage(EqStage(EqStage(df.rows, "origin", ext_int_filter),
                              "status", status_filter),
                      "priority", priority_filter)

C19_Witness ==
    /\ MainRan
    /\ Len(date_range) = 1
    /\ status_filter # ALL
    /\ Len(filtered_df.rows) = 1
    /\ NotNa(filtered_df.rows[1].date)
    /\ filtered_df.rows[1].date.t \div TicksPerDay < date_range[1]

-----------------------------------------------------------------------------
(* C13 *)

\* C13: two evaluations of the week detail view with equal arguments, the
\* same frame and the same period selection, give the same window
\* (start_date, end_date) and select the same rows, whatever the process
\* clock reads at each.
C13_WindowIndependentOfClock ==
    (pc = "week_again_done" /\ ~IsEmpty(df)) =>
        /\ week_again.period = week.period
        /\ week_again.start_date = week.start_date
        /\ week_again.end_date = week.end_date
        /\ week_again.week_df = week.week_df

-----------------------------------------------------------------------------
(* C14 *)

\* C14: for every clock reading, current_week_start is a Monday at 00:00:00,
\* not after the reading and less than seven days before it.
C14_WeekStartsMonday ==
    (pc \in {"week_done", "week_again_done"} /\ ~IsEmpty(df)) =>
        /\ week.current_week_start % TicksPerDay = 0
        /\ (week.current_week_start \div TicksPerDay) % DaysPerWeek = 0
        /\ week.current_week_start <= week.today
        /\ week.today - week.current_week_start < DaysPerWeek * TicksPerDay
        /\ pc = "week_again_done" =>
              /\ week_again.current_week_start % TicksPerDay = 0
              /\ (week_again.current_week_start \div TicksPerDay) % DaysPerWeek = 0
              /\ week_again.current_week_start <= week_again.today
              /\ week_again.today - week_again.current_week_start
                    < DaysPerWeek * TicksPerDay

C14_Witness ==
    /\ pc = "week_done"
    /\ ~IsEmpty(df)
    /\ week.today = 14 * TicksPerDay - 1
    /\ week.current_week_start = 7 * TicksPerDay

-----------------------------------------------------------------------------
(* C17 *)

\* C17: 'Last Week' and 'Current Week' split the instants from the Monday
\* of last week up to now between them: a record submitted in that span is
\* selected by 'Last Week' exactly when it was submitted before
\* current_week_start, and by 'Current Week' exactly when it was submitted
\* at or after it, so each record is selected by exactly one of the two.
C17_LastAndCurrentWeekAdjacent ==
    (pc = "week_done" /\ week.period \in {"Last Week", "Current Week"}) =>
        \A i \in DOMAIN sheet.rows :
            LET t == sheet.rows[i].date.t
            IN  (/\ NotNa(sheet.rows[i].date)
                 /\ week.current_week_start - DaysPerWeek * TicksPerDay <= t
                 /\ t <= week.today) =>
                    (sheet.rows[i].idx \in IdSet(week.week_df)
                        <=> IF week.period = "Last Week"
                            THEN t < week.current_week_start
                            ELSE t >= week.current_week_start)

-----------------------------------------------------------------------------
(* C16 *)

\* C16: the run in which "Refresh Data" is pressed calls refresh_data() and
\* starts over before anything is loaded or rendered, and every view
\* rendered from then on is called with a record set fetched in full after
\* that press: the whole sheet as it was at a fetch made after the press,
\* never the record set kept from before it.
C16_ViewsAfterRefreshUseFreshLoad ==
    /\ button => /\ pc = "main_start"
                 /\ \A v \in ViewNames : views[v] = NoFrame
    /\ (pc = "main_done" /\ ~IsEmpty(df)) =>
          /\ loaded_after = presses
          /\ cache = [filled |-> TRUE, frame |-> sheet, after |-> presses]
          /\ views["pareto"] = sheet

C16_Witness ==
    /\ pc = "main_done"
    /\ presses = 1
    /\ loaded_after = 1
    /\ Len(views["pareto"].rows) = 1
    /\ Len(views["aging"].rows) = 1
    /\ sheet = source

====
